---- MODULE Spec2Model ----
(***************************************************************************)
(* Model of the Trixel contribution client integration:                    *)
(*   custom_components/trixel_contribution_client/const.py                 *)
(*   custom_components/trixel_contribution_client/integration_polling_client.py *)
(*   custom_components/trixel_contribution_client/__init__.py              *)
(*   custom_components/trixel_contribution_client/config_flow.py           *)
(*                                                                         *)
(* Python's None is modelled by the empty sequence <<>> and a present      *)
(* value v by <<v>> wherever a value is Optional (the stored document,     *)
(* data, options, an entity state, a measurement value, an entry of the    *)
(* orphaned_sensors list).  Dictionaries are functions; a missing key is   *)
(* a key outside DOMAIN and indexing it is a KeyError.                     *)
(***************************************************************************)
EXTENDS Integers, Sequences, FiniteSets, TLC

VARIABLES
    store,      \* helper storage under STORAGE_KEY_CONFIG: <<>> or <<config document>>
    client,     \* entry.runtime_data: <<>> or <<[config, last_timestamps]>>
    task,       \* the polling task of client.run: "none", "pending", "polling",
                \* "publishing", "failed", "killed"
    entry_state, \* the config entry: "not_loaded", "sleeping" (async_setup_entry in asyncio.sleep), "loaded"
    batch,      \* the updates dictionary returned by the last _get_updates call
    last,       \* outcome of the handler that ran last (what its caller observes)
    flow        \* the config flow and the config entry it creates and updates

vars == <<store, client, task, entry_state, batch, last, flow>>

---------------------------------------------------------------------------
(* Bounds of the model *)

\* largest number of entities a user selects over all measurement types
MaxSel == 2
\* largest value of state.last_reported, in half seconds
MaxHalfSeconds == 3

---------------------------------------------------------------------------
(* const.py *)

CONF_TLS_HOST == "trixel_lookup_service_host"
CONF_TLS_USE_HTTPS == "tls_use_https"
CONF_TMS_USE_HTTPS == "tms_use_https"
CONF_UPDATE_INTERVAL == "update_interval"
CONF_K_REQUIREMENT == "k_privacy"
CONF_MAX_TRIXEL_DEPTH == "maximum_trixel_depth"
CONF_OUTDOOR_TEMPERATURE_SENSORS == "outdoor_temperature_sensors"
CONF_OUTDOOR_RELATIVE_HUMIDITY_SENSORS == "outdoor_relative_humidity_sensors"

\* degrees scaled by 10^7: 52.3731339 and 4.8903147
DEFAULT_HOME_LATITUDE == 523731339
DEFAULT_HOME_LONGITUDE == 48903147

AMBIENT_TEMPERATURE == "ambient_temperature"
RELATIVE_HUMIDITY == "relative_humidity"

\* iteration order of the MeasurementType enumeration
MeasurementType == <<AMBIENT_TEMPERATURE, RELATIVE_HUMIDITY>>

MEASUREMENT_TYPE_MAPPING ==
    (AMBIENT_TEMPERATURE :> CONF_OUTDOOR_TEMPERATURE_SENSORS)
    @@ (RELATIVE_HUMIDITY :> CONF_OUTDOOR_RELATIVE_HUMIDITY_SENSORS)

TEMPERATURE == "temperature"
HUMIDITY == "humidity"

\* a bug: every measurement type is mapped to the temperature class
DeviceClassMappingAllTemperature ==
    (AMBIENT_TEMPERATURE :> TEMPERATURE) @@ (RELATIVE_HUMIDITY :> TEMPERATURE)

MEASUREMENT_TYPE_DEVICE_CLASS_MAPPING ==
    (AMBIENT_TEMPERATURE :> TEMPERATURE) @@ (RELATIVE_HUMIDITY :> HUMIDITY)

---------------------------------------------------------------------------
(* Values *)

None == <<>>
Some(v) == <<v>>

\* sensor_id of a sensor that the measurement server has not registered yet
NoSensorId == 0

\* AnnotatedSensor(measurement_type=..., entity_id=...): sensor_id left unset
AnnotatedSensor(measurement_type, entity_id) ==
    [measurement_type |-> measurement_type,
     entity_id |-> entity_id,
     sensor_id |-> NoSensorId]

\* ClientConfig(location=..., tls_host=..., k=..., max_depth=..., sensors=...)
ClientConfig(location, tls_host, k, max_depth, sensors) ==
    [location |-> location, tls_host |-> tls_host, k |-> k,
     max_depth |-> max_depth, sensors |-> sensors]

\* dict.get(key, default)
Get(d, key, default) == IF key \in DOMAIN d THEN d[key] ELSE default

\* list.remove(x): drops the first element equal to x
RECURSIVE Remove(_, _)
Remove(list, x) ==
    IF list = <<>> THEN <<>>
    ELSE IF Head(list) = x THEN Tail(list)
    ELSE <<Head(list)>> \o Remove(Tail(list), x)

RECURSIVE Concat(_)
Concat(lists) ==
    IF lists = <<>> THEN <<>> ELSE Head(lists) \o Concat(Tail(lists))

Range(list) == {list[i] : i \in DOMAIN list}

---------------------------------------------------------------------------
(* integration_polling_client.py: load_client_config *)

\* the typed configuration built from the stored dictionary
TypedConfig(config_dict) ==
    [location |-> config_dict.location,
     tls_host |-> config_dict.tls_host,
     k |-> config_dict.k,
     max_depth |-> config_dict.max_depth,
     sensors |-> [i \in 1..Len(config_dict.sensors) |->
                    [measurement_type |-> config_dict.sensors[i].measurement_type,
                     entity_id |-> config_dict.sensors[i].entity_id,
                     sensor_id |-> config_dict.sensors[i].sensor_id]]]

\* load_client_config: FileNotFoundError when the storage holds no document
load_client_config(stored) ==
    IF stored = None
    THEN [found |-> FALSE, config |-> None]
    ELSE [found |-> TRUE, config |-> Some(TypedConfig(stored[1]))]

---------------------------------------------------------------------------
(* integration_polling_client.py: IntegrationPollingClient.create *)

\* the host has no usable location
NoHome(latitude, longitude) ==
    \/ (latitude = 0 /\ longitude = 0)
    \/ (latitude = DEFAULT_HOME_LATITUDE /\ longitude = DEFAULT_HOME_LONGITUDE)

\* a bug: entity_used is overwritten by every sensor, so the last one decides
EntityUsedLastOnly(sensors, measurement_type, entity_id) ==
    /\ sensors # <<>>
    /\ sensors[Len(sensors)].measurement_type = measurement_type
    /\ sensors[Len(sensors)].entity_id = entity_id

\* inner loop over client_config.sensors that sets entity_used
EntityUsed(sensors, measurement_type, entity_id) ==
    \E i \in 1..Len(sensors) :
        /\ sensors[i].measurement_type = measurement_type
        /\ sensors[i].entity_id = entity_id

\* the (measurement_type, entity_id) pairs one measurement type appends to new_sensors
NewSensorsOfType(sensors, measurement_type, entity_ids) ==
    [i \in 1..Len(entity_ids) |->
        IF EntityUsed(sensors, measurement_type, entity_ids[i])
        THEN None
        ELSE Some(<<measurement_type, entity_ids[i]>>)]

\* a bug: the measurement type of the sensor is not compared
OrphanedSensorsAnyType(sensors, measurement_type, entity_ids) ==
    [i \in 1..Len(sensors) |->
        IF sensors[i].entity_id \notin Range(entity_ids)
        THEN Some(sensors[i])
        ELSE None]

\* the list one measurement type extends orphaned_sensors with (sensor or None)
OrphanedSensorsOfType(sensors, measurement_type, entity_ids) ==
    [i \in 1..Len(sensors) |->
        IF /\ sensors[i].measurement_type = measurement_type
           /\ sensors[i].entity_id \notin Range(entity_ids)
        THEN Some(sensors[i])
        ELSE None]

\* the measurement types whose option key is read before the loop ends or fails
RECURSIVE TypesRead(_, _)
TypesRead(options, i) ==
    IF i > Len(MeasurementType) THEN [ok |-> TRUE, n |-> Len(MeasurementType)]
    ELSE IF MEASUREMENT_TYPE_MAPPING[MeasurementType[i]] \notin DOMAIN options
         THEN [ok |-> FALSE, n |-> i - 1]
         ELSE TypesRead(options, i + 1)

\* new_sensors after the loop over the first n measurement types
NewSensors(sensors, options, n) ==
    Concat(Concat([i \in 1..n |->
        NewSensorsOfType(sensors, MeasurementType[i],
                         options[MEASUREMENT_TYPE_MAPPING[MeasurementType[i]]])]))

\* orphaned_sensors after the loop over the first n measurement types
OrphanedSensors(sensors, options, n) ==
    Concat([i \in 1..n |->
        OrphanedSensorsOfType(sensors, MeasurementType[i],
                              options[MEASUREMENT_TYPE_MAPPING[MeasurementType[i]]])])

\* a bug: only the first orphaned sensor is removed
RECURSIVE RemoveOrphanedFirstOnly(_, _)
RemoveOrphanedFirstOnly(sensors, orphaned) ==
    IF orphaned = <<>> THEN sensors
    ELSE IF Head(orphaned) = None THEN RemoveOrphanedFirstOnly(sensors, Tail(orphaned))
    ELSE Remove(sensors, Head(orphaned)[1])

\* for sensor in orphaned_sensors: if sensor is not None: sensors.remove(sensor)
RECURSIVE RemoveOrphaned(_, _)
RemoveOrphaned(sensors, orphaned) ==
    IF orphaned = <<>> THEN sensors
    ELSE IF Head(orphaned) = None THEN RemoveOrphaned(sensors, Tail(orphaned))
    ELSE RemoveOrphaned(Remove(sensors, Head(orphaned)[1]), Tail(orphaned))

\* a bug: the new sensors are put in front of the stored ones
AppendNewInFront(sensors, new_sensors) ==
    [i \in 1..Len(new_sensors) |->
        AnnotatedSensor(new_sensors[i][1], new_sensors[i][2])] \o sensors

\* for measurement_type, entity_id in new_sensors: sensors.append(AnnotatedSensor(...))
AppendNew(sensors, new_sensors) ==
    sensors \o [i \in 1..Len(new_sensors) |->
                  AnnotatedSensor(new_sensors[i][1], new_sensors[i][2])]

\* a bug: only the first measurement type contributes sensors
FreshSensorsFirstType(options) ==
    [j \in 1..Len(options[MEASUREMENT_TYPE_MAPPING[MeasurementType[1]]]) |->
        AnnotatedSensor(MeasurementType[1],
                        options[MEASUREMENT_TYPE_MAPPING[MeasurementType[1]]][j])]

\* the sensors of a fresh configuration
FreshSensors(options) ==
    Concat([i \in 1..Len(MeasurementType) |->
        [j \in 1..Len(options[MEASUREMENT_TYPE_MAPPING[MeasurementType[i]]]) |->
            AnnotatedSensor(MeasurementType[i],
                            options[MEASUREMENT_TYPE_MAPPING[MeasurementType[i]]][j])]])

\* the outcome of a handler: op and result name it and what it returned or raised;
\* of a create call, store_accessed tells whether it read the helper storage, path
\* the branch it took, location, data and options its inputs, loaded the stored
\* configuration it found, config the configuration it returned; of _get_updates,
\* states are the entity states it read and before the cache it started from;
\* propagated tells whether the handler left an exception to its caller
NoOutcome ==
    [op |-> "none", result |-> "none", propagated |-> FALSE,
     store_accessed |-> FALSE, path |-> "none",
     location |-> <<>>, data |-> None, options |-> None,
     loaded |-> None, new_sensors |-> <<>>, orphaned_sensors |-> <<>>, config |-> None,
     states |-> <<>>, before |-> <<>>]

\* a bug: the stored location is kept
LocatedAsStored(loaded, latitude, longitude) == loaded

\* client_config.location = Coordinate(hass.config.latitude, hass.config.longitude):
\* of the loaded configuration only the location is replaced
Located(loaded, latitude, longitude) ==
    [loaded EXCEPT !.location = <<latitude, longitude>>]

\* the branch of create that found a stored configuration
CreateLoaded(latitude, longitude, loaded, data, options) ==
    LET base == [NoOutcome EXCEPT !.store_accessed = TRUE, !.loaded = Some(loaded),
                                  !.options = options, !.data = data]
        located == Located(loaded, latitude, longitude)
    IN  IF options = None
        THEN [base EXCEPT !.result = "ok", !.path = "loaded", !.config = Some(located)]
        ELSE IF \/ CONF_K_REQUIREMENT \notin DOMAIN options[1]
                \/ CONF_MAX_TRIXEL_DEPTH \notin DOMAIN options[1]
                \/ ~TypesRead(options[1], 1).ok
        THEN [base EXCEPT !.result = "KeyError", !.path = "reconciled"]
        ELSE
            LET n == Len(MeasurementType)
                new_sensors == NewSensors(loaded.sensors, options[1], n)
                orphaned_sensors == OrphanedSensors(loaded.sensors, options[1], n)
                sensors == AppendNew(RemoveOrphaned(loaded.sensors, orphaned_sensors),
                                     new_sensors)
            IN  [base EXCEPT
                    !.result = "ok", !.path = "reconciled",
                    !.new_sensors = new_sensors,
                    !.orphaned_sensors = orphaned_sensors,
                    !.config = Some([located EXCEPT
                                        !.k = options[1][CONF_K_REQUIREMENT],
                                        !.max_depth = options[1][CONF_MAX_TRIXEL_DEPTH],
                                        !.sensors = sensors])]

\* the except FileNotFoundError branch of create
CreateFresh(latitude, longitude, data, options) ==
    LET base == [NoOutcome EXCEPT !.store_accessed = TRUE,
                                  !.options = options, !.data = data]
    IN  IF data = None \/ options = None
        THEN [base EXCEPT !.result = "NoExistingConfigurationError"]
        ELSE IF \/ ~TypesRead(options[1], 1).ok
                \/ CONF_TLS_HOST \notin DOMAIN data[1]
                \/ CONF_K_REQUIREMENT \notin DOMAIN options[1]
                \/ CONF_MAX_TRIXEL_DEPTH \notin DOMAIN options[1]
        THEN [base EXCEPT !.result = "KeyError", !.path = "fresh"]
        ELSE [base EXCEPT
                !.result = "ok", !.path = "fresh",
                !.config = Some(ClientConfig(<<latitude, longitude>>,
                                             data[1][CONF_TLS_HOST],
                                             options[1][CONF_K_REQUIREMENT],
                                             options[1][CONF_MAX_TRIXEL_DEPTH],
                                             FreshSensors(options[1])))]

\* a bug: the stored configuration is loaded before the location is checked
createLoadFirst(latitude, longitude, stored, data, options) ==
    LET l == load_client_config(stored)
        out ==
            IF NoHome(latitude, longitude)
            THEN [NoOutcome EXCEPT !.result = "NoHomeError", !.store_accessed = TRUE,
                                   !.options = options, !.data = data]
            ELSE IF l.found
                 THEN CreateLoaded(latitude, longitude, l.config[1], data, options)
                 ELSE CreateFresh(latitude, longitude, data, options)
    IN  [out EXCEPT !.location = <<latitude, longitude>>]

\* IntegrationPollingClient.create(hass, data, options) on the stored document
create(latitude, longitude, stored, data, options) ==
    LET out ==
            IF NoHome(latitude, longitude)
            THEN [NoOutcome EXCEPT !.result = "NoHomeError",
                                   !.options = options, !.data = data]
            ELSE LET l == load_client_config(stored)
                 IN  IF l.found
                     THEN CreateLoaded(latitude, longitude, l.config[1], data, options)
                     ELSE CreateFresh(latitude, longitude, data, options)
    IN  [out EXCEPT !.location = <<latitude, longitude>>]

\* IntegrationPollingClient.__init__: a new instance with an empty timestamp cache
NewClient(config) == [config |-> config, last_timestamps |-> <<>>]

---------------------------------------------------------------------------
(* integration_polling_client.py: IntegrationPollingClient._get_updates *)

ATTR_DEVICE_CLASS == "device_class"
ATTR_UNIT_OF_MEASUREMENT == "unit_of_measurement"

CELSIUS == "C"
FAHRENHEIT == "F"
KELVIN == "K"
PERCENTAGE == "%"
UnitOfTemperature == {CELSIUS, FAHRENHEIT, KELVIN}

\* TemperatureConverter.convert(value, from_unit, CELSIUS), values in hundredths
TemperatureConverter_convert(value, from_unit) ==
    IF from_unit = CELSIUS THEN value
    ELSE IF from_unit = FAHRENHEIT THEN ((value - 3200) * 5) \div 9
    ELSE value - 27315

\* int(round(state.last_reported.astimezone(UTC).timestamp())), last_reported in
\* half seconds: round() takes a tie to the even neighbour
measurement_timestamp(last_reported) ==
    LET q == last_reported \div 2
    IN  IF last_reported % 2 = 0 THEN q
        ELSE IF q % 2 = 0 THEN q ELSE q + 1

\* a bug: only a later measurement is transmitted
RecordUpdateIncreasing(sensor, timestamp, value, acc) ==
    IF timestamp > Get(acc.last_timestamps, sensor.sensor_id, 0)
    THEN [acc EXCEPT
            !.last_timestamps = (sensor.sensor_id :> timestamp) @@ acc.last_timestamps,
            !.updates = (sensor.sensor_id :> <<timestamp, value>>) @@ acc.updates]
    ELSE acc

\* "Ignore already transmitted measurements": the cache and the batch take the
\* measurement unless its timestamp is the one recorded for the sensor id
RecordUpdate(sensor, timestamp, value, acc) ==
    IF timestamp # Get(acc.last_timestamps, sensor.sensor_id, 0)
    THEN [acc EXCEPT
            !.last_timestamps = (sensor.sensor_id :> timestamp) @@ acc.last_timestamps,
            !.updates = (sensor.sensor_id :> <<timestamp, value>>) @@ acc.updates]
    ELSE acc

\* the body of the loop of _get_updates for one sensor; acc carries _last_timestamps,
\* updates and the exception that left the loop, if any
SensorUpdate(sensor, state, acc) ==
    IF state = None THEN acc
    ELSE
    LET st == state[1]
        value == IF st.state.text \in {"unavailable", "unknown"}
                 THEN None ELSE Some(st.state.number)
    IN  IF ATTR_DEVICE_CLASS \notin DOMAIN st.attributes
        THEN [acc EXCEPT !.error = "KeyError"]
        ELSE IF st.attributes[ATTR_DEVICE_CLASS]
                    # MEASUREMENT_TYPE_DEVICE_CLASS_MAPPING[sensor.measurement_type]
        THEN acc
        ELSE IF /\ sensor.measurement_type = AMBIENT_TEMPERATURE
                /\ ATTR_UNIT_OF_MEASUREMENT \notin DOMAIN st.attributes
        THEN [acc EXCEPT !.error = "KeyError"]
        ELSE IF /\ sensor.measurement_type = AMBIENT_TEMPERATURE
                /\ st.attributes[ATTR_UNIT_OF_MEASUREMENT] \notin UnitOfTemperature
        THEN acc
        ELSE IF /\ st.attributes[ATTR_DEVICE_CLASS] = TEMPERATURE
                /\ value # None
                /\ ATTR_UNIT_OF_MEASUREMENT \notin DOMAIN st.attributes
        THEN [acc EXCEPT !.error = "KeyError"]
        ELSE
        LET converted ==
                IF st.attributes[ATTR_DEVICE_CLASS] = TEMPERATURE /\ value # None
                THEN Some(TemperatureConverter_convert(
                              value[1], st.attributes[ATTR_UNIT_OF_MEASUREMENT]))
                ELSE value
            timestamp == measurement_timestamp(st.last_reported)
        IN  RecordUpdate(sensor, timestamp, converted, acc)

\* for sensor in self.sensors: hass.states.get(sensor.entity_id) ...
RECURSIVE GetUpdatesLoop(_, _, _)
GetUpdatesLoop(sensors, states, acc) ==
    IF sensors = <<>> \/ acc.error # "none" THEN acc
    ELSE GetUpdatesLoop(Tail(sensors), states,
                        SensorUpdate(Head(sensors), states[Head(sensors).entity_id], acc))

\* _get_updates on the states of the host's entities
get_updates(self, states) ==
    GetUpdatesLoop(self.config.sensors, states,
                   [last_timestamps |-> self.last_timestamps,
                    updates |-> <<>>, error |-> "none"])

\* _persist_config: the document saved to the helper storage, asdict(self._config)
persist_config(self) ==
    Some([location |-> self.config.location,
          tls_host |-> self.config.tls_host,
          k |-> self.config.k,
          max_depth |-> self.config.max_depth,
          sensors |-> [i \in 1..Len(self.config.sensors) |->
                         [measurement_type |-> self.config.sensors[i].measurement_type,
                          entity_id |-> self.config.sensors[i].entity_id,
                          sensor_id |-> self.config.sensors[i].sensor_id]]])

---------------------------------------------------------------------------
(* The measurement station client that IntegrationPollingClient extends *)

\* the smallest sensor id no sensor of the list carries
FreeSensorId(sensors) ==
    CHOOSE id \in 1..(Len(sensors) + 1) :
        /\ \A i \in 1..Len(sensors) : sensors[i].sensor_id # id
        /\ \A smaller \in 1..(id - 1) :
              \E i \in 1..Len(sensors) : sensors[i].sensor_id = smaller

\* registration of the sensors at the measurement server: every sensor without an
\* id is given one
RECURSIVE RegisterSensors(_, _)
RegisterSensors(sensors, i) ==
    IF i > Len(sensors) THEN sensors
    ELSE IF sensors[i].sensor_id # NoSensorId THEN RegisterSensors(sensors, i + 1)
    ELSE RegisterSensors([sensors EXCEPT ![i].sensor_id = FreeSensorId(sensors)], i + 1)

---------------------------------------------------------------------------
(* Inputs *)

Entities == {"sensor.a", "sensor.b"}

\* entity lists of an entity selector with multiple=True
Selections == UNION {[1..n -> Entities] : n \in 0..MaxSel}

\* the sensor selections of the options of an entry: one entity list per
\* measurement type, at least one entity in all (validate_sensor_count)
SensorSelections ==
    {(CONF_OUTDOOR_TEMPERATURE_SENSORS :> t) @@ (CONF_OUTDOOR_RELATIVE_HUMIDITY_SENSORS :> h) :
        <<t, h>> \in {p \in Selections \X Selections :
                        Len(p[1]) + Len(p[2]) \in 1..MaxSel}}

TlsHosts == {"tls.one", "tls.two"}

\* hass.config.latitude and hass.config.longitude: unset, the onboarding default,
\* and two usable locations
Locations ==
    {<<0, 0>>, <<DEFAULT_HOME_LATITUDE, DEFAULT_HOME_LONGITUDE>>,
     <<DEFAULT_HOME_LATITUDE, 0>>, <<0, DEFAULT_HOME_LONGITUDE>>}

\* entry.data of a config entry
Data == {(CONF_TLS_HOST :> h) : h \in TlsHosts}

\* the general settings of entry.options
Settings ==
    {(CONF_K_REQUIREMENT :> 2) @@ (CONF_MAX_TRIXEL_DEPTH :> 24),
     (CONF_K_REQUIREMENT :> 3) @@ (CONF_MAX_TRIXEL_DEPTH :> 1)}

\* entry.options as the config flow stores them: both selection keys are Required
\* state.state of an entity: a sentinel text or a number (in hundredths)
StateValues ==
    {[text |-> "unavailable", number |-> 0], [text |-> "unknown", number |-> 0],
     [text |-> "number", number |-> 5000]}

\* state.attributes of an entity: either key may be missing
Attributes ==
    {(ATTR_DEVICE_CLASS :> TEMPERATURE) @@ (ATTR_UNIT_OF_MEASUREMENT :> CELSIUS),
     (ATTR_DEVICE_CLASS :> TEMPERATURE) @@ (ATTR_UNIT_OF_MEASUREMENT :> FAHRENHEIT),
     (ATTR_DEVICE_CLASS :> TEMPERATURE) @@ (ATTR_UNIT_OF_MEASUREMENT :> PERCENTAGE),
     (ATTR_DEVICE_CLASS :> HUMIDITY) @@ (ATTR_UNIT_OF_MEASUREMENT :> PERCENTAGE),
     (ATTR_DEVICE_CLASS :> TEMPERATURE),
     (ATTR_DEVICE_CLASS :> HUMIDITY),
     (ATTR_UNIT_OF_MEASUREMENT :> PERCENTAGE)}

\* a State object
State(value, attributes, last_reported) ==
    Some([state |-> value, attributes |-> attributes, last_reported |-> last_reported])

Reading == [text |-> "number", number |-> 5000]
TemperatureAttributes ==
    (ATTR_DEVICE_CLASS :> TEMPERATURE) @@ (ATTR_UNIT_OF_MEASUREMENT :> CELSIUS)
HumidityAttributes ==
    (ATTR_DEVICE_CLASS :> HUMIDITY) @@ (ATTR_UNIT_OF_MEASUREMENT :> PERCENTAGE)

\* hass.states.get(entity_id): None, a well-formed reading reported at any time, or
\* any state value with any attributes reported at the latest time
EntityStates ==
    {None}
    \cup {State(Reading, a, t) :
            a \in {TemperatureAttributes, HumidityAttributes}, t \in 0..MaxHalfSeconds}
    \cup {State(v, a, MaxHalfSeconds) : v \in StateValues, a \in Attributes}

\* the state machine of the host: the state of every entity
HostStates == [Entities -> EntityStates]

\* a few states of the host
SomeHostStates ==
    {[e \in Entities |-> None],
     [e \in Entities |-> State(Reading, TemperatureAttributes, MaxHalfSeconds)]}

---------------------------------------------------------------------------
(* State machine *)

\* no config flow is in progress and no config entry exists: step is the form the
\* flow shows, user_config the flow's _user_config, errors the error of the form,
\* input the user input of the last submission, entry the config entry
NoFlow ==
    [step |-> "none", user_config |-> <<>>, errors |-> "none", input |-> None,
     entry |-> None]

Init ==
    /\ store = None
    /\ client = None
    /\ task = "none"
    /\ entry_state = "not_loaded"
    /\ batch = <<>>
    /\ last = NoOutcome
    /\ flow = NoFlow

\* a bug: an exception of create is swallowed, the handler returns normally
SetupEntrySwallowing(latitude, longitude, data, options) ==
    /\ entry_state = "not_loaded"
    /\ LET out == create(latitude, longitude, store, data, options)
       IN  /\ last' = [out EXCEPT !.op = "async_setup_entry"]
           /\ IF out.result = "ok"
              THEN /\ client' = Some(NewClient(out.config[1]))
                   /\ task' = "pending"
                   /\ entry_state' = "sleeping"
                   /\ batch' = <<>>
              ELSE UNCHANGED <<client, task, entry_state, batch>>
    /\ UNCHANGED <<store, flow>>

\* __init__.py: async_setup_entry up to asyncio.sleep(2.5)
SetupEntry(latitude, longitude, data, options) ==
    /\ entry_state = "not_loaded"
    /\ LET out == create(latitude, longitude, store, data, options)
       IN  /\ last' = [out EXCEPT !.op = "async_setup_entry",
                                   !.propagated = out.result # "ok"]
           /\ IF out.result = "ok"
              THEN /\ client' = Some(NewClient(out.config[1]))
                   /\ task' = "pending"
                   /\ entry_state' = "sleeping"
                   /\ batch' = <<>>
              ELSE UNCHANGED <<client, task, entry_state, batch>>
    /\ UNCHANGED <<store, flow>>

\* client.run in the polling task: the start of the client registers the sensors
\* and persists the configuration, or fails
RunStart(ok) ==
    /\ task = "pending"
    /\ IF ok
       THEN LET registered ==
                    [client[1] EXCEPT
                        !.config.sensors = RegisterSensors(client[1].config.sensors, 1)]
            IN  /\ client' = Some(registered)
                /\ store' = persist_config(registered)
                /\ task' = "polling"
       ELSE /\ task' = "failed"
            /\ UNCHANGED <<client, store>>
    /\ last' = [NoOutcome EXCEPT !.op = "start", !.result = IF ok THEN "ok" ELSE "BaseError"]
    /\ UNCHANGED <<entry_state, batch, flow>>

\* one polling tick of client.run: get_updates(), the call of _get_updates
GetUpdates(states) ==
    /\ task = "polling"
    /\ LET r == get_updates(client[1], states)
       IN  /\ client' = Some([client[1] EXCEPT !.last_timestamps = r.last_timestamps])
           /\ last' = [NoOutcome EXCEPT
                           !.op = "_get_updates",
                           !.result = IF r.error = "none" THEN "ok" ELSE r.error,
                           !.propagated = r.error # "none",
                           !.states = states,
                           !.before = client[1].last_timestamps]
           /\ IF r.error = "none"
              THEN /\ batch' = r.updates
                   /\ task' = "publishing"
              ELSE /\ task' = "failed"
                   /\ UNCHANGED batch
    /\ UNCHANGED <<store, entry_state, flow>>

\* one polling tick of client.run: the batch is published, or publishing fails
Publish(ok) ==
    /\ task = "publishing"
    /\ task' = IF ok THEN "polling" ELSE "failed"
    /\ last' = [NoOutcome EXCEPT !.op = "publish",
                                  !.result = IF ok THEN "ok" ELSE "BaseError"]
    /\ UNCHANGED <<store, client, entry_state, batch, flow>>

\* a bug: the task is not inspected after the delay
SetupConfirmUnchecked ==
    /\ entry_state = "sleeping"
    /\ entry_state' = "loaded"
    /\ last' = [NoOutcome EXCEPT !.op = "async_setup_entry", !.result = "True"]
    /\ UNCHANGED <<store, client, task, batch, flow>>

\* __init__.py: async_setup_entry after asyncio.sleep(2.5)
SetupConfirm ==
    /\ entry_state = "sleeping"
    /\ IF task = "failed"
       THEN /\ entry_state' = "not_loaded"
            /\ client' = None
            /\ batch' = <<>>
            /\ last' = [NoOutcome EXCEPT !.op = "async_setup_entry",
                                          !.result = "ConfigEntryNotReady",
                                          !.propagated = TRUE]
       ELSE /\ entry_state' = "loaded"
            /\ last' = [NoOutcome EXCEPT !.op = "async_setup_entry", !.result = "True"]
            /\ UNCHANGED <<client, batch>>
    /\ UNCHANGED <<store, task, flow>>

\* __init__.py: done_callback of a polling task that ended with an exception:
\* client.kill(), which finds the task ended, and the reload of the entry is
\* scheduled (async_unload_entry, then async_setup_entry)
DoneCallback ==
    /\ entry_state = "loaded"
    /\ task = "failed"
    /\ entry_state' = "reloading"
    /\ last' = [NoOutcome EXCEPT !.op = "done_callback", !.result = "None"]
    /\ UNCHANGED <<store, client, task, batch, flow>>

\* a bug: the entry is unloaded and its polling task left running
UnloadEntryWithoutKill ==
    /\ entry_state \in {"loaded", "reloading"}
    /\ entry_state' = "not_loaded"
    /\ client' = None
    /\ batch' = <<>>
    /\ last' = [NoOutcome EXCEPT !.op = "async_unload_entry", !.result = "True"]
    /\ UNCHANGED <<store, task, flow>>

\* __init__.py: async_unload_entry
UnloadEntry ==
    /\ entry_state \in {"loaded", "reloading"}
    /\ entry_state' = "not_loaded"
    /\ task' = IF task \in {"pending", "polling", "publishing"} THEN "killed" ELSE task
    /\ client' = None
    /\ batch' = <<>>
    /\ last' = [NoOutcome EXCEPT !.op = "async_unload_entry", !.result = "True"]
    /\ UNCHANGED <<store, flow>>

\* the exceptions that the except clause of async_remove_entry catches
RemovalErrorsCaughtBaseErrorOnly == {"BaseError"}

RemovalErrorsCaught == {"BaseError", "NoHomeError", "NoExistingConfigurationError"}

\* __init__.py: async_remove_entry: the removal attempt (create(hass) and
\* run(delete=True), which deletes the station or fails), then store.async_remove()
\* unless an exception left the handler
RemoveEntry(latitude, longitude, deleted) ==
    /\ entry_state = "not_loaded"
    /\ LET out == create(latitude, longitude, store, None, None)
           attempt == IF out.result = "ok" /\ ~deleted THEN "BaseError" ELSE out.result
           propagated == attempt # "ok" /\ attempt \notin RemovalErrorsCaught
       IN  /\ last' = [out EXCEPT !.op = "async_remove_entry",
                                   !.result = attempt,
                                   !.propagated = propagated]
           /\ store' = IF propagated THEN store ELSE None
    /\ UNCHANGED <<client, task, entry_state, batch, flow>>

---------------------------------------------------------------------------
(* config_flow.py *)

\* dict.update
Update(d, u) == u @@ d

\* sum(len(x) for x in user_input.values())
RECURSIVE SensorCount(_, _)
SensorCount(user_input, keys) ==
    IF keys = {} THEN 0
    ELSE LET key == CHOOSE k \in keys : TRUE
         IN  Len(user_input[key]) + SensorCount(user_input, keys \ {key})

\* a bug: the lists are counted, not the sensors in them
validate_sensor_countOfLists(user_input) ==
    IF Cardinality(DOMAIN user_input) = 0 THEN "not_enough_sensors" ELSE "none"

\* validate_sensor_count: the error of a selection without any sensor
validate_sensor_count(user_input) ==
    IF SensorCount(user_input, DOMAIN user_input) = 0
    THEN "not_enough_sensors" ELSE "none"

\* retrieve_data_and_options: the data keys of user_config, and the keys in the
\* symmetric difference of its keys and the data keys (KeyError for a data key
\* that user_config lacks)
retrieve_data_and_options(user_config) ==
    LET data_keys == {CONF_TLS_HOST, CONF_TLS_USE_HTTPS, CONF_TMS_USE_HTTPS}
        keys == DOMAIN user_config
    IN  [ok |-> data_keys \subseteq keys,
         data |-> [key \in keys \cap data_keys |-> user_config[key]],
         options |-> [key \in keys \ data_keys |-> user_config[key]]]

\* async_step_user: a new flow shows the sensor selection form
StepUser ==
    /\ flow.step = "none"
    /\ flow' = [flow EXCEPT !.step = "sensor_selection", !.user_config = <<>>,
                            !.errors = "none", !.input = None]
    /\ UNCHANGED <<store, client, task, entry_state, batch, last>>

\* async_step_sensor_selection with user input
StepSensorSelection(user_input) ==
    /\ flow.step = "sensor_selection"
    /\ LET errors == validate_sensor_count(user_input)
       IN  IF errors # "none"
           THEN flow' = [flow EXCEPT !.errors = errors, !.input = Some(user_input)]
           ELSE flow' = [flow EXCEPT !.user_config = Update(@, user_input),
                                     !.step = "general_config",
                                     !.errors = "none", !.input = Some(user_input)]
    /\ UNCHANGED <<store, client, task, entry_state, batch, last>>

\* the form error that async_step_general_config shows for an exception
FormError(result) ==
    IF result = "NoHomeError" THEN "no_home"
    ELSE IF result = "BaseError" THEN "cannot_connect"
    ELSE "unknown"

\* async_step_general_config with user input: the stored configuration is
\* removed, then validate_connection creates a client from the input, starts it
\* (registration, _persist_config) and kills it; an exception is shown as a form
\* error, otherwise the config entry is created
ConfigFlowGeneralConfig(latitude, longitude, user_input, ok) ==
    /\ flow.step = "general_config"
    /\ LET user_config == Update(flow.user_config, user_input)
           r == retrieve_data_and_options(user_config)
           out == create(latitude, longitude, None, Some(r.data), Some(r.options))
           result == IF ~r.ok THEN "KeyError"
                     ELSE IF out.result = "ok" /\ ~ok THEN "BaseError" ELSE out.result
       IN  /\ last' = [out EXCEPT !.op = "async_step_general_config",
                                   !.result = result, !.propagated = ~r.ok]
           /\ store' = IF result = "ok"
                       THEN persist_config(
                                [NewClient(out.config[1]) EXCEPT
                                    !.config.sensors = RegisterSensors(out.config[1].sensors, 1)])
                       ELSE None
           /\ flow' = IF result = "ok"
                      THEN [flow EXCEPT !.step = "none", !.user_config = user_config,
                                        !.errors = "none", !.input = Some(user_input),
                                        !.entry = Some([data |-> r.data, options |-> r.options])]
                      ELSE [flow EXCEPT !.user_config = user_config,
                                        !.errors = FormError(result),
                                        !.input = Some(user_input)]
    /\ UNCHANGED <<client, task, entry_state, batch>>

\* async_step_reconfigure: a new flow for the entry shows the general settings
StepReconfigure ==
    /\ flow.step = "none"
    /\ flow.entry # None
    /\ flow' = [flow EXCEPT !.step = "general_settings_reconfigure",
                            !.user_config = <<>>, !.errors = "none", !.input = None]
    /\ UNCHANGED <<store, client, task, entry_state, batch, last>>

\* async_step_general_settings_reconfigure with user input
StepGeneralSettingsReconfigure(user_input) ==
    /\ flow.step = "general_settings_reconfigure"
    /\ flow' = [flow EXCEPT !.user_config = Update(flow.entry[1].options, user_input),
                            !.step = "sensor_selection_reconfigure",
                            !.errors = "none", !.input = Some(user_input)]
    /\ UNCHANGED <<store, client, task, entry_state, batch, last>>

\* async_step_sensor_selection_reconfigure with user input:
\* async_update_reload_and_abort updates the options of the entry
StepSensorSelectionReconfigure(user_input) ==
    /\ flow.step = "sensor_selection_reconfigure"
    /\ LET errors == validate_sensor_count(user_input)
           user_config == Update(flow.user_config, user_input)
       IN  IF errors # "none"
           THEN flow' = [flow EXCEPT !.errors = errors, !.input = Some(user_input)]
           ELSE flow' = [flow EXCEPT !.user_config = user_config,
                                     !.step = "none",
                                     !.errors = "none", !.input = Some(user_input),
                                     !.entry = Some([flow.entry[1] EXCEPT
                                                        !.options = user_config])]
    /\ UNCHANGED <<store, client, task, entry_state, batch, last>>

NextOver(locations, datas, optionss, hosts) ==
    \/ \E location \in locations, data \in datas, options \in optionss :
            SetupEntry(location[1], location[2], Some(data), Some(options))
    \/ \E ok \in BOOLEAN : RunStart(ok)
    \/ \E states \in hosts : GetUpdates(states)
    \/ \E ok \in BOOLEAN : Publish(ok)
    \/ SetupConfirm
    \/ DoneCallback
    \/ UnloadEntry
    \/ \E location \in locations, deleted \in BOOLEAN :
            RemoveEntry(location[1], location[2], deleted)

\* a selection of the sensor selection step
Selection(temperature, humidity) ==
    (CONF_OUTDOOR_TEMPERATURE_SENSORS :> temperature)
    @@ (CONF_OUTDOOR_RELATIVE_HUMIDITY_SENSORS :> humidity)

\* sensor selections of the lifecycle
LifecycleSelections ==
    {Selection(<<"sensor.a">>, <<>>),
     Selection(<<>>, <<"sensor.b">>),
     Selection(<<"sensor.a">>, <<"sensor.b">>),
     Selection(<<"sensor.a", "sensor.b">>, <<"sensor.a">>)}

\* the inputs of the lifecycle: every location, host and general setting
Next ==
    NextOver(Locations, Data,
             {g @@ sel : g \in Settings, sel \in LifecycleSelections},
             SomeHostStates)

Spec == Init /\ [][Next]_vars

TheData == (CONF_TLS_HOST :> "tls.one")
TheSettings == (CONF_K_REQUIREMENT :> 2) @@ (CONF_MAX_TRIXEL_DEPTH :> 24)

\* the inputs of reconciliation: every sensor selection
TheLocation == <<DEFAULT_HOME_LATITUDE, 0>>
NoStates == [e \in Entities |-> None]

NextReconcile ==
    NextOver({TheLocation}, {TheData}, {TheSettings @@ sel : sel \in SensorSelections},
             {NoStates})

SpecReconcile == Init /\ [][NextReconcile]_vars

\* options that lack the selection of a measurement type
PartialOptions ==
    {[key \in DOMAIN o \ {missing} |-> o[key]] :
        o \in {TheSettings @@ sel : sel \in SensorSelections},
        missing \in Range(MEASUREMENT_TYPE_MAPPING)}

\* the inputs of reconciliation, with and without the selection of every type
NextPartial ==
    NextOver({TheLocation}, {TheData},
             {TheSettings @@ sel : sel \in SensorSelections} \cup PartialOptions,
             {NoStates})

SpecPartial == Init /\ [][NextPartial]_vars

\* sensor selections of the polling client
PollSelections ==
    {Selection(<<"sensor.a">>, <<"sensor.b">>),
     Selection(<<"sensor.a">>, <<"sensor.a">>),
     Selection(<<"sensor.a", "sensor.b">>, <<>>)}

\* the inputs of polling: every state of the host
NextPoll ==
    NextOver({TheLocation}, {TheData},
             {TheSettings @@ sel : sel \in PollSelections}, HostStates)

SpecPoll == Init /\ [][NextPoll]_vars

\* what the user submits in the sensor selection forms
FlowSelections ==
    {Selection(<<>>, <<>>),
     Selection(<<"sensor.a">>, <<>>),
     Selection(<<>>, <<"sensor.b">>),
     Selection(<<"sensor.a">>, <<"sensor.b">>)}

\* what the user submits in the general settings form of a reconfiguration
GeneralSettings == {g @@ (CONF_UPDATE_INTERVAL :> 60) : g \in Settings}

\* what the user submits in the general configuration form
GeneralConfigs ==
    {TheData @@ (CONF_TLS_USE_HTTPS :> TRUE) @@ (CONF_TMS_USE_HTTPS :> TRUE)
             @@ TheSettings @@ (CONF_UPDATE_INTERVAL :> 60)}

\* entry.data and entry.options of the config entry, if there is one
EntryData == IF flow.entry = None THEN {} ELSE {flow.entry[1].data}
EntryOptions == IF flow.entry = None THEN {} ELSE {flow.entry[1].options}

\* the config flow of the integration and the lifecycle of the entry it creates
NextFlow ==
    \/ NextOver({TheLocation}, EntryData, EntryOptions, {NoStates})
    \/ StepUser
    \/ \E user_input \in FlowSelections : StepSensorSelection(user_input)
    \/ \E location \in {TheLocation, <<0, 0>>}, user_input \in GeneralConfigs,
          ok \in BOOLEAN :
            ConfigFlowGeneralConfig(location[1], location[2], user_input, ok)
    \/ StepReconfigure
    \/ \E user_input \in GeneralSettings : StepGeneralSettingsReconfigure(user_input)
    \/ \E user_input \in FlowSelections : StepSensorSelectionReconfigure(user_input)

SpecFlow == Init /\ [][NextFlow]_vars

---------------------------------------------------------------------------
(* Reconciliation: claims C1 to C5 *)

\* the (measurement_type, entity_id) pair of a sensor
Pair(sensor) == <<sensor.measurement_type, sensor.entity_id>>

NoDuplicates(sensors) ==
    \A i, j \in 1..Len(sensors) : i # j => Pair(sensors[i]) # Pair(sensors[j])

\* async_setup_entry has just called create, which returned a client
Created == last.op = "async_setup_entry" /\ last.path # "none" /\ last.result = "ok"

\* create has just reconciled a stored configuration against options
Reconciled == Created /\ last.path = "reconciled"

\* the entity ids options select for a measurement type
Desired(options, measurement_type) ==
    Range(options[MEASUREMENT_TYPE_MAPPING[measurement_type]])

\* the entity ids of the sensors of a measurement type
EntitiesOfType(sensors, measurement_type) ==
    {sensors[i].entity_id :
        i \in {j \in 1..Len(sensors) : sensors[j].measurement_type = measurement_type}}

\* C1: after a create call, fresh or reconciling, on a stored sensor list without
\* duplicates, the configuration holds at most one sensor per
\* (measurement_type, entity_id) pair.
C1_NoDuplicateSensors ==
    (Created /\ (last.loaded = None \/ NoDuplicates(last.loaded[1].sensors)))
        => NoDuplicates(last.config[1].sensors)

\* C2: reconciling the reconciled sensor list against the same options again adds
\* no sensor and removes no sensor.
C2_ReconcileIdempotent ==
    Reconciled =>
        LET sensors == last.config[1].sensors
            options == last.options[1]
            n == Len(MeasurementType)
        IN  /\ NewSensors(sensors, options, n) = <<>>
            /\ \A i \in 1..Len(OrphanedSensors(sensors, options, n)) :
                    OrphanedSensors(sensors, options, n)[i] = None
            /\ AppendNew(RemoveOrphaned(sensors, OrphanedSensors(sensors, options, n)),
                         NewSensors(sensors, options, n)) = sensors

\* a reconciliation that added a sensor and removed two
C2_Witness ==
    /\ Reconciled
    /\ last.new_sensors # <<>>
    /\ Cardinality({i \in 1..Len(last.orphaned_sensors) :
                        last.orphaned_sensors[i] # None}) >= 2

\* C3: no pair of new_sensors exists in the stored list, and no sensor of
\* orphaned_sensors has its entity id selected under its measurement type.
C3_DiffIsSound ==
    Reconciled =>
        /\ \A i \in 1..Len(last.new_sensors) :
                \A j \in 1..Len(last.loaded[1].sensors) :
                    last.new_sensors[i] # Pair(last.loaded[1].sensors[j])
        /\ \A i \in 1..Len(last.orphaned_sensors) :
                last.orphaned_sensors[i] # None =>
                    last.orphaned_sensors[i][1].entity_id
                        \notin Desired(last.options[1],
                                       last.orphaned_sensors[i][1].measurement_type)

\* a reconciliation that added a sensor, removed one and kept one
C3_Witness ==
    /\ Reconciled
    /\ last.new_sensors # <<>>
    /\ \E i \in 1..Len(last.orphaned_sensors) : last.orphaned_sensors[i] # None
    /\ \E i \in 1..Len(last.orphaned_sensors) : last.orphaned_sensors[i] = None
    /\ Len(last.loaded[1].sensors) >= 2

\* C4: after a reconciliation the entity ids of the sensors of every measurement
\* type of the options are the entity ids the options select for that type.
C4_SensorsMatchSelection ==
    Reconciled =>
        \A i \in 1..Len(MeasurementType) :
            MEASUREMENT_TYPE_MAPPING[MeasurementType[i]] \in DOMAIN last.options[1] =>
                EntitiesOfType(last.config[1].sensors, MeasurementType[i])
                    = Desired(last.options[1], MeasurementType[i])

\* an empty selection removed the sensor of one type while the same entity was
\* added under the other type
C4_Witness ==
    /\ Reconciled
    /\ \E e \in Entities :
        /\ \E j \in 1..Len(last.loaded[1].sensors) :
                Pair(last.loaded[1].sensors[j]) = <<AMBIENT_TEMPERATURE, e>>
        /\ Desired(last.options[1], AMBIENT_TEMPERATURE) = {}
        /\ e \in Desired(last.options[1], RELATIVE_HUMIDITY)
        /\ EntitiesOfType(last.loaded[1].sensors, RELATIVE_HUMIDITY) = {}
        /\ EntitiesOfType(last.config[1].sensors, RELATIVE_HUMIDITY) = {e}
        /\ EntitiesOfType(last.config[1].sensors, AMBIENT_TEMPERATURE) = {}

\* C5: when the options lack a measurement type, create returns a client whose
\* sensors of that type are those of the stored configuration, and the types the
\* options hold are reconciled.
C5_AbsentTypeUntouched ==
    (/\ last.op = "async_setup_entry"
     /\ last.loaded # None
     /\ last.options # None)
        => \A i \in 1..Len(MeasurementType) :
            MEASUREMENT_TYPE_MAPPING[MeasurementType[i]] \notin DOMAIN last.options[1] =>
                /\ last.result = "ok"
                /\ SelectSeq(last.config[1].sensors,
                             LAMBDA sensor : sensor.measurement_type = MeasurementType[i])
                    = SelectSeq(last.loaded[1].sensors,
                                LAMBDA sensor : sensor.measurement_type = MeasurementType[i])

---------------------------------------------------------------------------
(* Creation and persistence: claims C6 to C8 *)

\* C6: when run is invoked on the client that create returned, the helper storage
\* holds the configuration of that client.
C6_SavedBeforeRun == task = "pending" => store = persist_config(client[1])

\* a create call, from async_setup_entry or from async_remove_entry, has just ended
CreateCalled ==
    last.op \in {"async_setup_entry", "async_remove_entry"} /\ last.location # <<>>

\* the location is unset or the onboarding default
Unusable(location) ==
    \/ location = <<0, 0>>
    \/ location = <<DEFAULT_HOME_LATITUDE, DEFAULT_HOME_LONGITUDE>>

C8_FreshOrNoExistingConfiguration ==
    (CreateCalled /\ ~Unusable(last.location) /\ last.store_accessed /\ last.loaded = None)
        => IF last.data = None \/ last.options = None
           THEN /\ last.result = "NoExistingConfigurationError"
                /\ last.config = None
           ELSE LET temperature == last.options[1][CONF_OUTDOOR_TEMPERATURE_SENSORS]
                    humidity == last.options[1][CONF_OUTDOOR_RELATIVE_HUMIDITY_SENSORS]
                IN  /\ last.result = "ok"
                    /\ last.config = Some(
                         [location |-> last.location,
                          tls_host |-> last.data[1][CONF_TLS_HOST],
                          k |-> last.options[1][CONF_K_REQUIREMENT],
                          max_depth |-> last.options[1][CONF_MAX_TRIXEL_DEPTH],
                          sensors |->
                            [i \in 1..Len(temperature) |->
                                [measurement_type |-> AMBIENT_TEMPERATURE,
                                 entity_id |-> temperature[i],
                                 sensor_id |-> NoSensorId]]
                            \o [i \in 1..Len(humidity) |->
                                [measurement_type |-> RELATIVE_HUMIDITY,
                                 entity_id |-> humidity[i],
                                 sensor_id |-> NoSensorId]]])
                    /\ client = Some([config |-> last.config[1], last_timestamps |-> <<>>])

\* a fresh configuration with sensors of both measurement types
C8_Witness ==
    /\ last.op = "async_setup_entry"
    /\ last.path = "fresh"
    /\ last.result = "ok"
    /\ EntitiesOfType(last.config[1].sensors, AMBIENT_TEMPERATURE) # {}
    /\ EntitiesOfType(last.config[1].sensors, RELATIVE_HUMIDITY) # {}

---------------------------------------------------------------------------
(* The timestamp cache: claims C9 and C10 *)

\* _get_updates has just run
Polled == last.op = "_get_updates"

\* the sensors of the polling client
Sensors == client[1].config.sensors

\* the state of the entity of sensor i that _get_updates read
StateOf(i) == last.states[Sensors[i].entity_id]

\* the state of sensor i is readable and passes the device class and unit checks
ReadableValid(i) ==
    /\ StateOf(i) # None
    /\ ATTR_DEVICE_CLASS \in DOMAIN StateOf(i)[1].attributes
    /\ StateOf(i)[1].attributes[ATTR_DEVICE_CLASS]
         = MEASUREMENT_TYPE_DEVICE_CLASS_MAPPING[Sensors[i].measurement_type]
    /\ Sensors[i].measurement_type = AMBIENT_TEMPERATURE =>
         /\ ATTR_UNIT_OF_MEASUREMENT \in DOMAIN StateOf(i)[1].attributes
         /\ StateOf(i)[1].attributes[ATTR_UNIT_OF_MEASUREMENT] \in UnitOfTemperature

\* the timestamp of the reading of sensor i, in seconds
TimestampOf(i) == measurement_timestamp(StateOf(i)[1].last_reported)

\* the timestamp recorded for the id of sensor i when _get_updates started
RecordedBefore(i) == Get(last.before, Sensors[i].sensor_id, 0)

\* the batch that _get_updates returned holds the reading of sensor i
Included(i) ==
    /\ last.result = "ok"
    /\ Sensors[i].sensor_id \in DOMAIN batch
    /\ batch[Sensors[i].sensor_id][1] = TimestampOf(i)

\* _get_updates wrote the timestamp of the reading of sensor i to the cache
Recorded(i) ==
    /\ Sensors[i].sensor_id \in DOMAIN client[1].last_timestamps
    /\ client[1].last_timestamps[Sensors[i].sensor_id] = TimestampOf(i)
    /\ \/ Sensors[i].sensor_id \notin DOMAIN last.before
       \/ last.before[Sensors[i].sensor_id] # TimestampOf(i)

\* C9: in every tick the reading of a readable, valid sensor is in the batch
\* exactly when its timestamp differs from the one recorded for its sensor id
\* (0 if none), and the timestamp is recorded exactly when the reading is included.
C9_IncludedIffTimestampDiffers ==
    Polled =>
        \A i \in 1..Len(Sensors) :
            ReadableValid(i) =>
                /\ Included(i) <=> TimestampOf(i) # RecordedBefore(i)
                /\ Recorded(i) <=> Included(i)

\* the reading of sensor i is older than the one recorded for its sensor id
Regressed(i) == ReadableValid(i) /\ TimestampOf(i) < RecordedBefore(i)

\* no state that _get_updates read lacks an attribute
AttributesPresent ==
    \A i \in 1..Len(Sensors) :
        StateOf(i) # None =>
            {ATTR_DEVICE_CLASS, ATTR_UNIT_OF_MEASUREMENT} \subseteq DOMAIN StateOf(i)[1].attributes

---------------------------------------------------------------------------
(* Cache loss and failures of one sensor: claims C11 and C12 *)

\* _get_updates started from the empty cache of a new client instance
CacheLost == Polled /\ last.before = <<>>

\* C11: a tick that starts from an empty cache and returns its batch includes the
\* reading of every readable, valid sensor, whatever its timestamp.
C11_NoOmissionAfterCacheLoss ==
    (CacheLost /\ last.result = "ok") =>
        \A i \in 1..Len(Sensors) : ReadableValid(i) => Included(i)

\* C12: in a tick in which a sensor fails (no state, wrong or missing device class,
\* wrong or missing unit), _get_updates returns normally and the batch holds the
\* reading of every readable, valid sensor that the cache does not suppress.
C12_SensorFailureNeverAborts ==
    (Polled /\ \E k \in 1..Len(Sensors) : ~ReadableValid(k)) =>
        /\ last.result = "ok"
        /\ \A i \in 1..Len(Sensors) :
              (ReadableValid(i) /\ TimestampOf(i) # RecordedBefore(i)) => Included(i)

---------------------------------------------------------------------------
(* Removal and setup errors: claims C13 to C15 *)

\* C13: when async_remove_entry has finished, whatever the removal attempt came to
\* (station deleted, BaseError during deletion, NoHomeError, no stored
\* configuration), the helper storage holds no configuration and no exception has
\* left the handler.
C13_RemovedWhateverTheAttempt ==
    last.op = "async_remove_entry" =>
        /\ last.result \in {"ok", "BaseError", "NoHomeError", "NoExistingConfigurationError"}
        /\ store = None
        /\ ~last.propagated

\* a stored configuration was removed although the deletion at the server failed
C13_Witness ==
    /\ last.op = "async_remove_entry"
    /\ last.result = "BaseError"
    /\ last.loaded # None
    /\ store = None

\* a polling task of the entry exists and has not ended
TaskAlive == task \in {"pending", "polling", "publishing"}

\* C14: when create raises NoHomeError or NoExistingConfigurationError in
\* async_setup_entry, the exception leaves async_setup_entry, no polling task was
\* created and the entry has no client to run.
C14_CreateErrorStopsSetup ==
    (/\ last.op = "async_setup_entry"
     /\ last.result \in {"NoHomeError", "NoExistingConfigurationError"})
        => /\ last.propagated
           /\ ~TaskAlive
           /\ client = None
           /\ entry_state = "not_loaded"

\* NoHomeError in a setup that follows an unloaded, once running entry
C14_Witness ==
    /\ last.op = "async_setup_entry"
    /\ last.result = "NoHomeError"
    /\ task = "killed"
    /\ store # None

\* C15: at the end of the startup delay async_setup_entry raises
\* ConfigEntryNotReady exactly when the polling task has failed, and returns True
\* otherwise.
C15_FailedTaskFailsSetup ==
    [][(entry_state = "sleeping" /\ entry_state' # "sleeping") =>
          IF task = "failed"
          THEN /\ last'.result = "ConfigEntryNotReady"
               /\ last'.propagated
               /\ entry_state' = "not_loaded"
          ELSE /\ last'.result = "True"
               /\ ~last'.propagated
               /\ entry_state' = "loaded"]_vars

\* the polling task failed in a tick during the delay and setup was refused
C15_Witness ==
    /\ last.op = "async_setup_entry"
    /\ last.result = "ConfigEntryNotReady"
    /\ task = "failed"
    /\ store # None

---------------------------------------------------------------------------
(* One polling task, the stored configuration: claims C16 to C18 *)

\* async_setup_entry creates a polling task in this step
TaskCreated ==
    /\ last'.op = "async_setup_entry"
    /\ last'.result = "ok"
    /\ task' = "pending"

\* C16: across setup, unload, done_callback with its reload and renewed setup, a
\* polling task is created only when no earlier polling task of the entry can
\* still run a tick, and an entry that is not set up has no such task.
C16_OnePollingTask ==
    [][/\ TaskCreated => ~TaskAlive
       /\ entry_state' = "not_loaded" => task' \notin {"pending", "polling", "publishing"}]_vars

\* a polling task created by the setup that follows the reload of a failed task
C16_Witness ==
    /\ last.op = "async_setup_entry"
    /\ last.result = "ok"
    /\ task = "pending"
    /\ last.loaded # None
    /\ Len(last.loaded[1].sensors) > 0

\* C17: when create finds a stored configuration, the configuration it returns
\* keeps the stored tls_host whatever data and options say, takes the location of
\* the host, and takes k and max_depth from options only when options are given.
C17_StoredHostKept ==
    (CreateCalled /\ last.loaded # None /\ last.result = "ok") =>
        /\ last.config[1].tls_host = last.loaded[1].tls_host
        /\ last.config[1].location = last.location
        /\ IF last.options = None
           THEN /\ last.config[1].k = last.loaded[1].k
                /\ last.config[1].max_depth = last.loaded[1].max_depth
           ELSE /\ last.config[1].k = last.options[1][CONF_K_REQUIREMENT]
                /\ last.config[1].max_depth = last.options[1][CONF_MAX_TRIXEL_DEPTH]

\* a stored configuration met by data with another host, options with another k
\* and a host at another location
C17_Witness ==
    /\ last.op = "async_setup_entry"
    /\ last.result = "ok"
    /\ last.loaded # None
    /\ last.data[1][CONF_TLS_HOST] # last.loaded[1].tls_host
    /\ last.options[1][CONF_K_REQUIREMENT] # last.loaded[1].k
    /\ last.location # last.loaded[1].location

\* C18: while the polling task of the entry's client is alive, the helper storage
\* changes only by that client persisting its configuration.
C18_SingleWriter ==
    [][(client # None /\ TaskAlive /\ store' # store) =>
          /\ client' # None
          /\ store' = persist_config(client'[1])]_vars

---------------------------------------------------------------------------
(* Validation in _get_updates: claims C19 and C20 *)

\* the state of sensor i holds a sentinel instead of a value
Sentinel(i) ==
    /\ StateOf(i) # None
    /\ StateOf(i)[1].state.text \in {"unavailable", "unknown"}

\* C19: a sensor whose state is "unavailable" or "unknown" is reported with a null
\* value when its state passes the checks and the cache does not suppress its
\* timestamp, and is omitted when its state fails a check.
C19_SentinelReportedAsNull ==
    Polled =>
        \A i \in 1..Len(Sensors) :
            Sentinel(i) =>
                IF ReadableValid(i)
                THEN TimestampOf(i) # RecordedBefore(i) =>
                        /\ Included(i)
                        /\ batch[Sensors[i].sensor_id][2] = None
                ELSE ~Included(i)

\* the device class that a measurement type demands
Mandated(measurement_type) ==
    IF measurement_type = AMBIENT_TEMPERATURE THEN TEMPERATURE ELSE HUMIDITY

\* the state of sensor i carries a device class other than the demanded one
WrongDeviceClass(i) ==
    /\ StateOf(i) # None
    /\ ATTR_DEVICE_CLASS \in DOMAIN StateOf(i)[1].attributes
    /\ StateOf(i)[1].attributes[ATTR_DEVICE_CLASS] # Mandated(Sensors[i].measurement_type)

\* the state of temperature sensor i carries the demanded device class and a unit
\* that is no unit of temperature
WrongUnit(i) ==
    /\ StateOf(i) # None
    /\ Sensors[i].measurement_type = AMBIENT_TEMPERATURE
    /\ ATTR_DEVICE_CLASS \in DOMAIN StateOf(i)[1].attributes
    /\ StateOf(i)[1].attributes[ATTR_DEVICE_CLASS] = TEMPERATURE
    /\ ATTR_UNIT_OF_MEASUREMENT \in DOMAIN StateOf(i)[1].attributes
    /\ StateOf(i)[1].attributes[ATTR_UNIT_OF_MEASUREMENT] \notin {CELSIUS, FAHRENHEIT, KELVIN}

\* the cache holds for the id of sensor i what it held when _get_updates started
CacheEntryUnchanged(i) ==
    /\ Sensors[i].sensor_id \in DOMAIN client[1].last_timestamps
         <=> Sensors[i].sensor_id \in DOMAIN last.before
    /\ Sensors[i].sensor_id \in DOMAIN last.before =>
         client[1].last_timestamps[Sensors[i].sensor_id] = last.before[Sensors[i].sensor_id]

\* C20: a sensor with the wrong device class, or a temperature sensor with a unit
\* that is no unit of temperature, is not in the batch and its cache entry is
\* unchanged, whatever its value and timestamp; the device class is checked first:
\* a state of the wrong class is skipped without its unit being read.
C20_RejectedNeverIncluded ==
    Polled =>
        /\ \A i \in 1..Len(Sensors) :
              (WrongDeviceClass(i) \/ WrongUnit(i)) =>
                  /\ last.result = "ok" => Sensors[i].sensor_id \notin DOMAIN batch
                  /\ CacheEntryUnchanged(i)
        /\ (\A i \in 1..Len(Sensors) : StateOf(i) = None \/ WrongDeviceClass(i)) =>
              /\ last.result = "ok"
              /\ batch = <<>>

\* a tick returned a batch that leaves out a sensor of the wrong device class
\* whose timestamp the cache does not hold
C20_Witness ==
    /\ Polled
    /\ last.result = "ok"
    /\ batch # <<>>
    /\ \E i \in 1..Len(Sensors) : WrongDeviceClass(i) /\ TimestampOf(i) # RecordedBefore(i)

---------------------------------------------------------------------------
(* The config flow: claim C21 *)

\* the number of sensors that a selection or the options of an entry select
Selected(options) ==
    Len(options[CONF_OUTDOOR_TEMPERATURE_SENSORS])
    + Len(options[CONF_OUTDOOR_RELATIVE_HUMIDITY_SENSORS])

\* the last submission of the flow was a sensor selection without any sensor
EmptySelectionSubmitted ==
    /\ flow.input # None
    /\ CONF_OUTDOOR_TEMPERATURE_SENSORS \in DOMAIN flow.input[1]
    /\ Selected(flow.input[1]) = 0

\* C21: a sensor selection without any sensor, submitted in the setup flow or in
\* the reconfigure flow, leaves the flow at its sensor selection form with the
\* error "not_enough_sensors", and the options of every entry that the flow has
\* created or updated select at least one sensor.
C21_EntrySelectsASensor ==
    /\ flow.entry # None => Selected(flow.entry[1].options) >= 1
    /\ EmptySelectionSubmitted =>
          /\ flow.errors = "not_enough_sensors"
          /\ flow.step \in {"sensor_selection", "sensor_selection_reconfigure"}

\* an empty selection was refused in the reconfiguration of an entry
C21_Witness ==
    /\ EmptySelectionSubmitted
    /\ flow.step = "sensor_selection_reconfigure"
    /\ flow.entry # None

---------------------------------------------------------------------------
(* Retained sensors and the cache after a tick: claims C22 and C23 *)

\* the stored sensor is still selected by the options
StillSelected(sensor) == sensor.entity_id \in Desired(last.options[1], sensor.measurement_type)

\* the stored sensors that are still selected, in their stored order
Retained == SelectSeq(last.loaded[1].sensors, StillSelected)

\* C22: after a reconciliation the sensors of the configuration start with the
\* stored sensors that are still selected, each as the stored record (sensor_id
\* included) and in the stored order, followed by the new sensors, none of which
\* has a sensor_id.
C22_RetainedSensorsKept ==
    Reconciled =>
        LET sensors == last.config[1].sensors
        IN  /\ Len(sensors) = Len(Retained) + Len(last.new_sensors)
            /\ SubSeq(sensors, 1, Len(Retained)) = Retained
            /\ \A i \in 1..Len(last.new_sensors) :
                  sensors[Len(Retained) + i] =
                      [measurement_type |-> last.new_sensors[i][1],
                       entity_id |-> last.new_sensors[i][2],
                       sensor_id |-> NoSensorId]

\* a reconciliation that dropped the first stored sensor, kept a registered one
\* and added a new one
C22_Witness ==
    /\ Reconciled
    /\ Len(last.loaded[1].sensors) >= 2
    /\ ~StillSelected(last.loaded[1].sensors[1])
    /\ Retained # <<>>
    /\ Retained[1].sensor_id # NoSensorId
    /\ last.new_sensors # <<>>

\* the batch that the tick returned: none when _get_updates raised
Returned == IF last.result = "ok" THEN batch ELSE <<>>

\* C23: after a tick the cache holds, for every sensor id of the returned batch,
\* the timestamp of its batch entry; the cache entry of every other sensor id is
\* what it was before the tick; every key of the batch is the id of a sensor of
\* the configuration.
C23_CacheFollowsBatch ==
    Polled =>
        /\ \A id \in DOMAIN Returned :
              /\ id \in DOMAIN client[1].last_timestamps
              /\ client[1].last_timestamps[id] = Returned[id][1]
              /\ \E i \in 1..Len(Sensors) : Sensors[i].sensor_id = id
        /\ \A id \in (DOMAIN client[1].last_timestamps \cup DOMAIN last.before)
                          \ DOMAIN Returned :
              /\ id \in DOMAIN client[1].last_timestamps
              /\ id \in DOMAIN last.before
              /\ client[1].last_timestamps[id] = last.before[id]

====
